---- MODULE Spec2Model ----
(***************************************************************************)
(* Model of the confirmation API client (src/confirm.js).                  *)
(*                                                                         *)
(* One call of one operation is followed from the synchronous part of the  *)
(* call (argument checks, request construction) through the transport's    *)
(* outcome to the handlers the operation registered (.then/.catch of the   *)
(* fetch promise, the .end callback of superagent).  The transport, the    *)
(* caller's callback and the `common` helpers are the environment: their   *)
(* outcomes are drawn from small sets.                                     *)
(*                                                                         *)
(* JavaScript values are encoded as records of one shape so that sets of   *)
(* them are comparable:                                                    *)
(*   - an argument value is [t, s, n]: type tag, string content, size      *)
(*     (array length / number of own keys);                                *)
(*   - an object handed to the callback is [kind, status, message, error,  *)
(*     reason, body]; a field the object does not have holds Undefined.    *)
(***************************************************************************)
EXTENDS Integers, Sequences, FiniteSets, TLC

\* ---------------------------------------------------------------- bounds
\* longest identifier / e-mail string tried as an argument
MaxIdLen == 2

\* ------------------------------------------------------ encoded JS values
NoStatus == 0 - 1
Undefined == "<undefined>"
FalseV == "<false>"
ErrorObject == "<Error>"

JSV(t, s, n) == [t |-> t, s |-> s, n |-> n]
UndefV == JSV("undefined", "", 0)
NullV == JSV("null", "", 0)
Str(s) == JSV("string", s, 0)
NumV == JSV("number", "", 5)
BoolV == JSV("boolean", "", 1)
FalseBoolV == JSV("boolean", "", 0)
ArrV(n) == JSV("array", "", n)
ObjV(n) == JSV("object", "", n)

RECURSIVE StrOfLen(_)
StrOfLen(n) == IF n = 0 THEN "" ELSE "u" \o StrOfLen(n - 1)

Strings == {Str(StrOfLen(n)) : n \in 0..MaxIdLen}
NonStrings == {UndefV, NullV, NumV, BoolV, ArrV(0), ArrV(1), ObjV(0), ObjV(1)}
\* values tried for an identifier / e-mail argument
IdValues == Strings \cup NonStrings
\* values tried for a field of a payload (UndefV: the field is missing)
FieldValues == {UndefV, Str(""), Str("u"), NumV, ArrV(1)}
LangArgs == {UndefV, Str("fr")}
InfoArgs == {UndefV, BoolV, FalseBoolV}
CbArgs == {"omitted", "returns", "throws"}
Statuses == {200, 201, 204, 400, 404, 500}

\* lodash _.isEmpty
isEmpty(v) ==
  CASE v.t \in {"undefined", "null"} -> TRUE
    [] v.t = "string" -> Len(v.s) = 0
    [] v.t \in {"array", "object"} -> v.n = 0
    [] OTHER -> TRUE

\* _.isString that accepts every value
isStringAny(v) == TRUE

\* lodash _.isString
isString(v) == v.t = "string"

\* JavaScript truthiness of an encoded field value
Truthy(x) == x \notin {Undefined, FalseV, ""}

\* x || ''
OrEmpty(x) == IF Truthy(x) THEN x ELSE ""

\* JavaScript truthiness of an argument value
TruthyV(v) ==
  CASE v.t \in {"undefined", "null"} -> FALSE
    [] v.t = "string" -> Len(v.s) > 0
    [] v.t \in {"number", "boolean"} -> v.n # 0
    [] OTHER -> TRUE

\* a default parameter value applies when the argument is undefined
Default(v, d) == IF v = UndefV THEN d ELSE v

\* ------------------------------------------------------------- objects
Blank ==
  [kind |-> "undefined", status |-> NoStatus, message |-> Undefined,
   error |-> Undefined, reason |-> Undefined, body |-> Undefined]
UndefinedArg == Blank
NullArg == [Blank EXCEPT !.kind = "null"]
EmptyArray == [Blank EXCEPT !.kind = "array"]
\* new Error(msg)
NewError(msg) == [Blank EXCEPT !.kind = "Error", !.message = msg]
\* the exception a throwing callback raises
CbException == NewError("callback failed")
\* the rejections of the fetch promise and of response.text()
FetchRejection == [Blank EXCEPT !.kind = "TypeError", !.message = "Failed to fetch"]
TextRejection == [Blank EXCEPT !.kind = "TypeError", !.message = "body stream error"]
\* a response body {reason, error}
BodyObject(reason, error) ==
  [Blank EXCEPT !.kind = "body", !.reason = reason, !.error = error]

\* ------------------------------------------------- `common` collaborator
ApiHost == "https://api"
makeAPIUrl(path) == ApiHost \o path
SESSION_TOKEN_HEADER == "x-tidepool-session-token"
STATUS_BAD_REQUEST == 400
Tokens == {"tok1", "tok2"}
Traces == {"trace1"}

Header(name, value) == [name |-> name, value |-> value]
NoBody == [key |-> UndefV, email |-> UndefV, password |-> UndefV, birthday |-> UndefV]
Request(method, url, headers, body) ==
  [method |-> method, url |-> url, headers |-> headers, body |-> body]

\* --------------------------------------------------------------- state
VARIABLES
  pc,        \* "idle", "thrown", "pending", "then", "catch", "done"
  op,        \* the operation called
  args,      \* the arguments of the call
  token,     \* common.getToken()
  trace,     \* common.getSessionTrace()
  requests,  \* the HTTP requests issued, in order
  calls,     \* the invocations of the callback, in order
  outcome,   \* what the transport reported
  reason,    \* the rejection travelling down the promise chain
  thrown,    \* message of the error thrown by the call itself ("" if none)
  uncaught   \* TRUE when a handler let an exception escape

vars == <<pc, op, args, token, trace, requests, calls, outcome, reason, thrown, uncaught>>

NoArgs ==
  [id |-> UndefV, lang |-> UndefV, info |-> UndefV, key |-> UndefV, email |-> UndefV,
   password |-> UndefV, birthday |-> UndefV, cb |-> "omitted"]
NoOutcome ==
  [kind |-> "none", status |-> NoStatus, hasResponse |-> FALSE, hasBody |-> FALSE,
   reason |-> Undefined, error |-> Undefined, resError |-> Undefined,
   textOk |-> FALSE, text |-> ""]

Init ==
  /\ pc = "idle"
  /\ op = "none"
  /\ args = NoArgs
  /\ token \in Tokens
  /\ trace \in Traces
  /\ requests = <<>>
  /\ calls = <<>>
  /\ outcome = NoOutcome
  /\ reason = Blank
  /\ thrown = ""
  /\ uncaught = FALSE

\* cb(err, res) / cb(err) / cb(): one more invocation of the callback
Invocation(argc, err, res) == [argc |-> argc, err |-> err, res |-> res]
cbThrows == args.cb = "throws"


\* ------------------------------------------------------------ transport
\* Response.ok of the fetch API: the status is in the range 200-299
ResponseOk(o) == o.status \in 200..299

\* what the fetch promise can settle to
FetchResponses ==
  {[NoOutcome EXCEPT !.kind = "resolve", !.status = s, !.hasResponse = TRUE,
                     !.textOk = t, !.text = x] :
     s \in Statuses, t \in BOOLEAN, x \in {"", "no such user"}}

\* what superagent can hand to the .end callback as (null, res); the body of
\* a delivered response is taken to be a parsed object
SuperagentResponses ==
  {[NoOutcome EXCEPT !.kind = "res", !.status = s, !.hasResponse = TRUE, !.hasBody = TRUE,
                     !.reason = r, !.error = e, !.resError = re] :
     s \in Statuses, r \in {Undefined, "x"}, e \in {Undefined, "e"},
     re \in {FalseV, ErrorObject}}

\* what superagent can hand to the .end callback as (err): a failure with a
\* non-2xx status or none, with or without a (partial) response, whose body
\* may be missing
FailureStatuses == {s \in Statuses : s \notin 200..299} \cup {NoStatus}
SuperagentFailures ==
  {[NoOutcome EXCEPT !.kind = "err", !.status = s] : s \in FailureStatuses}
  \cup
  {[NoOutcome EXCEPT !.kind = "err", !.status = s, !.hasResponse = TRUE, !.resError = re] :
     s \in FailureStatuses, re \in {FalseV, ErrorObject}}
  \cup
  {[NoOutcome EXCEPT !.kind = "err", !.status = s, !.hasResponse = TRUE, !.hasBody = TRUE,
                     !.reason = r, !.error = e, !.resError = re] :
     s \in FailureStatuses, r \in {Undefined, "x"}, e \in {Undefined, "e"},
     re \in {FalseV, ErrorObject}}

SuperagentOutcomes == SuperagentResponses \cup SuperagentFailures

\* the failure object `err` superagent supplies
FailureObject(o) ==
  [Blank EXCEPT !.kind = "failure", !.status = o.status, !.message = "transport failure"]

\* err.response && err.response.body && err.response.body.reason
ErrBodyReason(o) == IF o.hasResponse /\ o.hasBody THEN o.reason ELSE Undefined
\* err.response && err.response.body && err.response.body.error
ErrBodyError(o) == IF o.hasResponse /\ o.hasBody THEN o.error ELSE Undefined
\* err.response && err.response.error
ErrResponseError(o) == IF o.hasResponse THEN o.resError ELSE Undefined

\* {status, message} / {status, error, message}
Descriptor(status, error, message) ==
  [Blank EXCEPT !.kind = "descriptor", !.status = status, !.error = error,
                !.message = message]

\* ----------------------------------------------------- fetch-style calls
\* the precondition check of signupStart, signupResend, requestPasswordReset
InvalidParameter(v) == isEmpty(v) \/ ~isString(v)

signupStartHeaders(lang) ==
  {Header("x-tidepool-session-token", Str(token)),
   Header("x-tidepool-trace-session", Str(trace)),
   Header("x-tidepool-language", lang)}

signupStart(invitedId, langArg, cb) ==
  /\ pc = "idle"
  /\ op' = "signupStart"
  /\ args' = [NoArgs EXCEPT !.id = invitedId, !.lang = langArg, !.cb = cb]
  /\ IF InvalidParameter(invitedId)
       THEN /\ pc' = "thrown"
            /\ thrown' = "Invalid parameter invitedId"
            /\ UNCHANGED requests
       ELSE /\ requests' = Append(requests,
                 Request("POST", makeAPIUrl("/confirm/send/signup/" \o invitedId.s),
                         signupStartHeaders(Default(langArg, Str("en"))), NoBody))
            /\ pc' = "pending"
            /\ UNCHANGED thrown
  /\ UNCHANGED <<token, trace, calls, outcome, reason, uncaught>>

\* the callback invocation of signupStart's .then handler
signupStartThenCb(response) ==
  IF ResponseOk(response)
    THEN Invocation(1, NullArg, UndefinedArg)
    ELSE Invocation(1, NewError("Invalid HTTP response " \o ToString(response.status)),
                    UndefinedArg)

signupStartThen ==
  /\ pc = "then"
  /\ op = "signupStart"
  /\ calls' = Append(calls, signupStartThenCb(outcome))
  /\ IF cbThrows
       THEN pc' = "catch" /\ reason' = CbException
       ELSE pc' = "done" /\ UNCHANGED reason
  /\ UNCHANGED <<op, args, token, trace, requests, outcome, thrown, uncaught>>

\* .catch((reason) => { cb(reason); })
signupStartCatch ==
  /\ pc = "catch"
  /\ op = "signupStart"
  /\ calls' = Append(calls, Invocation(1, reason, UndefinedArg))
  /\ pc' = "done"
  /\ uncaught' = cbThrows
  /\ UNCHANGED <<op, args, token, trace, requests, outcome, reason, thrown>>

signupResendHeaders(lang) ==
  {Header("x-tidepool-trace-session", Str(trace)),
   Header("x-tidepool-language", lang)}

signupResend(email, langArg, cb) ==
  /\ pc = "idle"
  /\ op' = "signupResend"
  /\ args' = [NoArgs EXCEPT !.email = email, !.lang = langArg, !.cb = cb]
  /\ IF InvalidParameter(email)
       THEN /\ pc' = "thrown"
            /\ thrown' = "Invalid parameter email"
            /\ UNCHANGED requests
       ELSE /\ requests' = Append(requests,
                 Request("POST", makeAPIUrl("/confirm/resend/signup/" \o email.s),
                         signupResendHeaders(Default(langArg, Str("en"))), NoBody))
            /\ pc' = "pending"
            /\ UNCHANGED thrown
  /\ UNCHANGED <<token, trace, calls, outcome, reason, uncaught>>

\* signupResend's .then handler dropping the body text
signupResendThenCbNoText(response) ==
  IF ResponseOk(response)
    THEN Invocation(1, NullArg, UndefinedArg)
    ELSE Invocation(1, Descriptor(response.status, Undefined, Undefined), UndefinedArg)

\* the callback invocation of signupResend's .then handler, once the body
\* text is read
signupResendThenCb(response) ==
  IF ResponseOk(response)
    THEN Invocation(1, NullArg, UndefinedArg)
    ELSE Invocation(1, Descriptor(response.status, Undefined, response.text), UndefinedArg)

signupResendThen ==
  /\ pc = "then"
  /\ op = "signupResend"
  /\ IF ~ResponseOk(outcome) /\ ~outcome.textOk
       THEN \* await response.text() rejects
            /\ pc' = "catch"
            /\ reason' = TextRejection
            /\ UNCHANGED calls
       ELSE /\ calls' = Append(calls, signupResendThenCb(outcome))
            /\ IF cbThrows
                 THEN pc' = "catch" /\ reason' = CbException
                 ELSE pc' = "done" /\ UNCHANGED reason
  /\ UNCHANGED <<op, args, token, trace, requests, outcome, thrown, uncaught>>

\* .catch((reason) => { cb(reason); })
signupResendCatch ==
  /\ pc = "catch"
  /\ op = "signupResend"
  /\ calls' = Append(calls, Invocation(1, reason, UndefinedArg))
  /\ pc' = "done"
  /\ uncaught' = cbThrows
  /\ UNCHANGED <<op, args, token, trace, requests, outcome, reason, thrown>>

\* requestPasswordReset's headers with the language fixed
requestPasswordResetHeadersFixedLang(lang) ==
  {Header("x-tidepool-trace-session", Str(trace)),
   Header("x-tidepool-language", Str("en"))}

requestPasswordResetHeaders(lang) ==
  {Header("x-tidepool-trace-session", Str(trace)),
   Header("x-tidepool-language", lang)}

\* `${info ? '?info=ok' : ''}`
InfoQuery(info) == IF TruthyV(info) THEN "?info=ok" ELSE ""

requestPasswordReset(email, infoArg, langArg, cb) ==
  /\ pc = "idle"
  /\ op' = "requestPasswordReset"
  /\ args' = [NoArgs EXCEPT !.email = email, !.info = infoArg, !.lang = langArg, !.cb = cb]
  /\ IF InvalidParameter(email)
       THEN /\ pc' = "thrown"
            /\ thrown' = "Invalid parameter email"
            /\ UNCHANGED requests
       ELSE /\ requests' = Append(requests,
                 Request("POST",
                         makeAPIUrl("/confirm/send/forgot/" \o email.s
                                    \o InfoQuery(Default(infoArg, BoolV))),
                         requestPasswordResetHeaders(Default(langArg, Str("en"))), NoBody))
            /\ pc' = "pending"
            /\ UNCHANGED thrown
  /\ UNCHANGED <<token, trace, calls, outcome, reason, uncaught>>

\* the callback invocation of requestPasswordReset's .then handler, once the body
\* text is read
requestPasswordResetThenCb(response) ==
  IF ResponseOk(response)
    THEN Invocation(1, NullArg, UndefinedArg)
    ELSE Invocation(1, Descriptor(response.status, Undefined, response.text), UndefinedArg)

requestPasswordResetThen ==
  /\ pc = "then"
  /\ op = "requestPasswordReset"
  /\ IF ~ResponseOk(outcome) /\ ~outcome.textOk
       THEN \* await response.text() rejects
            /\ pc' = "catch"
            /\ reason' = TextRejection
            /\ UNCHANGED calls
       ELSE /\ calls' = Append(calls, requestPasswordResetThenCb(outcome))
            /\ IF cbThrows
                 THEN pc' = "catch" /\ reason' = CbException
                 ELSE pc' = "done" /\ UNCHANGED reason
  /\ UNCHANGED <<op, args, token, trace, requests, outcome, thrown, uncaught>>

\* .catch((reason) => { cb(reason); })
requestPasswordResetCatch ==
  /\ pc = "catch"
  /\ op = "requestPasswordReset"
  /\ calls' = Append(calls, Invocation(1, reason, UndefinedArg))
  /\ pc' = "done"
  /\ uncaught' = cbThrows
  /\ UNCHANGED <<op, args, token, trace, requests, outcome, reason, thrown>>

FetchOps == {"signupStart", "signupResend", "requestPasswordReset"}

\* the fetch promise resolves with a response
fetchResolves(response) ==
  /\ pc = "pending"
  /\ op \in FetchOps
  /\ outcome' = response
  /\ pc' = "then"
  /\ UNCHANGED <<op, args, token, trace, requests, calls, reason, thrown, uncaught>>

\* the fetch promise rejects (network failure)
fetchRejects ==
  /\ pc = "pending"
  /\ op \in FetchOps
  /\ outcome' = [NoOutcome EXCEPT !.kind = "reject"]
  /\ reason' = FetchRejection
  /\ pc' = "catch"
  /\ UNCHANGED <<op, args, token, trace, requests, calls, thrown, uncaught>>


\* ------------------------------------------------ superagent-style calls
signupConfirm(signupId, cb) ==
  /\ pc = "idle"
  /\ op' = "signupConfirm"
  /\ args' = [NoArgs EXCEPT !.id = signupId, !.cb = cb]
  /\ requests' = Append(requests,
       Request("PUT", makeAPIUrl("/confirm/accept/signup/" \o signupId.s), {}, NoBody))
  /\ pc' = "pending"
  /\ UNCHANGED <<token, trace, calls, outcome, reason, thrown, uncaught>>

\* signupConfirm's .end handler taking every 2xx status for success
signupConfirmEndCbAny2xx(o) ==
  IF o.kind = "err"
    THEN Invocation(1, [FailureObject(o) EXCEPT !.message = OrEmpty(ErrBodyReason(o))],
                    UndefinedArg)
    ELSE IF o.status \notin 200..299
      THEN Invocation(1, Descriptor(o.status, Undefined, o.reason), UndefinedArg)
      ELSE Invocation(0, UndefinedArg, UndefinedArg)

\* the callback invocation of signupConfirm's .end handler
signupConfirmEndCb(o) ==
  IF o.kind = "err"
    THEN Invocation(1, [FailureObject(o) EXCEPT !.message = OrEmpty(ErrBodyReason(o))],
                    UndefinedArg)
    ELSE IF o.status # 200
      THEN Invocation(1, Descriptor(o.status, Undefined, o.reason), UndefinedArg)
      ELSE Invocation(0, UndefinedArg, UndefinedArg)

signupConfirmEnd(o) ==
  /\ pc = "pending"
  /\ op = "signupConfirm"
  /\ outcome' = o
  /\ calls' = Append(calls, signupConfirmEndCb(o))
  /\ pc' = "done"
  /\ uncaught' = cbThrows
  /\ UNCHANGED <<op, args, token, trace, requests, reason, thrown>>

\* custodialSignupConfirm with a local check of birthday and password
custodialSignupConfirmFailFast(signupId, birthday, password, cb) ==
  /\ pc = "idle"
  /\ op' = "custodialSignupConfirm"
  /\ args' = [NoArgs EXCEPT !.id = signupId, !.birthday = birthday,
                            !.password = password, !.cb = cb]
  /\ IF isEmpty(birthday) \/ isEmpty(password)
       THEN /\ calls' = Append(calls,
                 Invocation(1, [Blank EXCEPT !.kind = "descriptor",
                                             !.status = STATUS_BAD_REQUEST],
                            UndefinedArg))
            /\ pc' = "done"
            /\ UNCHANGED requests
       ELSE /\ requests' = Append(requests,
                 Request("PUT", makeAPIUrl("/confirm/accept/signup/" \o signupId.s), {},
                         [NoBody EXCEPT !.birthday = birthday, !.password = password]))
            /\ pc' = "pending"
            /\ UNCHANGED calls
  /\ UNCHANGED <<token, trace, outcome, reason, thrown, uncaught>>

custodialSignupConfirm(signupId, birthday, password, cb) ==
  /\ pc = "idle"
  /\ op' = "custodialSignupConfirm"
  /\ args' = [NoArgs EXCEPT !.id = signupId, !.birthday = birthday,
                            !.password = password, !.cb = cb]
  /\ requests' = Append(requests,
       Request("PUT", makeAPIUrl("/confirm/accept/signup/" \o signupId.s), {},
               [NoBody EXCEPT !.birthday = birthday, !.password = password]))
  /\ pc' = "pending"
  /\ UNCHANGED <<token, trace, calls, outcome, reason, thrown, uncaught>>

\* custodialSignupConfirm's .end handler with error and reason swapped in the
\* descriptor
custodialSignupConfirmEndCbSwapped(o) ==
  IF o.kind = "err"
    THEN Invocation(1, [FailureObject(o) EXCEPT !.error = OrEmpty(ErrBodyError(o)),
                                                !.message = OrEmpty(ErrBodyReason(o))],
                    UndefinedArg)
    ELSE IF o.status # 200
      THEN Invocation(1, Descriptor(o.status, o.reason, o.error), UndefinedArg)
      ELSE Invocation(0, UndefinedArg, UndefinedArg)

\* the callback invocation of custodialSignupConfirm's .end handler
custodialSignupConfirmEndCb(o) ==
  IF o.kind = "err"
    THEN Invocation(1, [FailureObject(o) EXCEPT !.error = OrEmpty(ErrBodyError(o)),
                                                !.message = OrEmpty(ErrBodyReason(o))],
                    UndefinedArg)
    ELSE IF o.status # 200
      THEN Invocation(1, Descriptor(o.status, o.error, o.reason), UndefinedArg)
      ELSE Invocation(0, UndefinedArg, UndefinedArg)

custodialSignupConfirmEnd(o) ==
  /\ pc = "pending"
  /\ op = "custodialSignupConfirm"
  /\ outcome' = o
  /\ calls' = Append(calls, custodialSignupConfirmEndCb(o))
  /\ pc' = "done"
  /\ uncaught' = cbThrows
  /\ UNCHANGED <<op, args, token, trace, requests, reason, thrown>>

invitesReceived(inviteeId, cb) ==
  /\ pc = "idle"
  /\ op' = "invitesReceived"
  /\ args' = [NoArgs EXCEPT !.id = inviteeId, !.cb = cb]
  /\ requests' = Append(requests,
       Request("GET", makeAPIUrl("/confirm/invitations/" \o inviteeId.s),
               {Header(SESSION_TOKEN_HEADER, Str(token))}, NoBody))
  /\ pc' = "pending"
  /\ UNCHANGED <<token, trace, calls, outcome, reason, thrown, uncaught>>

\* the callback invocation of invitesReceived's .end handler
invitesReceivedEndCb(o) ==
  IF o.kind = "err"
    THEN IF o.status = 404
           THEN Invocation(2, NullArg, EmptyArray)
           ELSE Invocation(1, IF o.hasResponse /\ o.hasBody
                                THEN BodyObject(o.reason, o.error)
                                ELSE EmptyArray,
                           UndefinedArg)
    ELSE IF o.status = 200
      THEN Invocation(2, NullArg, BodyObject(o.reason, o.error))
      ELSE IF o.status = 404
        THEN Invocation(2, NullArg, EmptyArray)
        ELSE Invocation(2, BodyObject(o.reason, o.error), EmptyArray)

invitesReceivedEnd(o) ==
  /\ pc = "pending"
  /\ op = "invitesReceived"
  /\ outcome' = o
  /\ calls' = Append(calls, invitesReceivedEndCb(o))
  /\ pc' = "done"
  /\ uncaught' = cbThrows
  /\ UNCHANGED <<op, args, token, trace, requests, reason, thrown>>

\* the payload check without the password
InvalidPayloadNoPassword(key, email, password) ==
  isEmpty(key) \/ isEmpty(email)

\* _.isEmpty(payload.key) || _.isEmpty(payload.email) || _.isEmpty(payload.password)
InvalidPayload(key, email, password) ==
  isEmpty(key) \/ isEmpty(email) \/ isEmpty(password)

\* the text of the fail-fast descriptor (its back quotes left out)
PayloadRequires == "payload requires object with key, email, password"

confirmPasswordReset(key, email, password, cb) ==
  /\ pc = "idle"
  /\ op' = "confirmPasswordReset"
  /\ args' = [NoArgs EXCEPT !.key = key, !.email = email, !.password = password, !.cb = cb]
  /\ IF InvalidPayload(key, email, password)
       THEN /\ calls' = Append(calls,
                 Invocation(1, [Blank EXCEPT !.kind = "descriptor",
                                             !.status = STATUS_BAD_REQUEST,
                                             !.body = PayloadRequires],
                            UndefinedArg))
            /\ pc' = "done"
            /\ thrown' = IF cb = "throws" THEN CbException.message ELSE ""
            /\ UNCHANGED requests
       ELSE /\ requests' = Append(requests,
                 Request("PUT", makeAPIUrl("/confirm/accept/forgot"), {},
                         [NoBody EXCEPT !.key = key, !.email = email,
                                        !.password = password]))
            /\ pc' = "pending"
            /\ UNCHANGED <<calls, thrown>>
  /\ UNCHANGED <<token, trace, outcome, reason, uncaught>>

\* confirmPasswordReset's .end handler answering a failure with a fresh
\* descriptor
confirmPasswordResetEndCbFresh(o) ==
  IF o.kind = "err"
    THEN Invocation(1, Descriptor(o.status, Undefined, OrEmpty(ErrResponseError(o))),
                    UndefinedArg)
    ELSE IF o.status # 200
      THEN Invocation(1, Descriptor(o.status, Undefined, o.resError), UndefinedArg)
      ELSE Invocation(0, UndefinedArg, UndefinedArg)

\* the callback invocation of confirmPasswordReset's .end handler
confirmPasswordResetEndCb(o) ==
  IF o.kind = "err"
    THEN Invocation(1, [FailureObject(o) EXCEPT !.message = OrEmpty(ErrResponseError(o))],
                    UndefinedArg)
    ELSE IF o.status # 200
      THEN Invocation(1, Descriptor(o.status, Undefined, o.resError), UndefinedArg)
      ELSE Invocation(0, UndefinedArg, UndefinedArg)

confirmPasswordResetEnd(o) ==
  /\ pc = "pending"
  /\ op = "confirmPasswordReset"
  /\ outcome' = o
  /\ calls' = Append(calls, confirmPasswordResetEndCb(o))
  /\ pc' = "done"
  /\ uncaught' = cbThrows
  /\ UNCHANGED <<op, args, token, trace, requests, reason, thrown>>

SuperagentOps ==
  {"signupConfirm", "custodialSignupConfirm", "invitesReceived", "confirmPasswordReset"}

\* ------------------------------------------------------- specification
\* identifiers that are interpolated into a URL by the superagent-style
\* calls; these calls do not check them
UrlIds == {v \in Strings : Len(v.s) > 0}
GivenCbs == {"returns", "throws"}

Next ==
  \/ \E v \in IdValues, l \in LangArgs, cb \in CbArgs : signupStart(v, l, cb)
  \/ signupStartThen
  \/ signupStartCatch
  \/ \E v \in IdValues, l \in LangArgs, cb \in CbArgs : signupResend(v, l, cb)
  \/ signupResendThen
  \/ signupResendCatch
  \/ \E v \in IdValues, i \in InfoArgs, l \in LangArgs, cb \in CbArgs :
       requestPasswordReset(v, i, l, cb)
  \/ requestPasswordResetThen
  \/ requestPasswordResetCatch
  \/ \E r \in FetchResponses : fetchResolves(r)
  \/ fetchRejects
  \/ \E v \in UrlIds, cb \in GivenCbs : signupConfirm(v, cb)
  \/ \E o \in SuperagentOutcomes : signupConfirmEnd(o)
  \/ \E v \in UrlIds, b \in FieldValues, p \in FieldValues, cb \in GivenCbs :
       custodialSignupConfirm(v, b, p, cb)
  \/ \E o \in SuperagentOutcomes : custodialSignupConfirmEnd(o)
  \/ \E v \in UrlIds, cb \in GivenCbs : invitesReceived(v, cb)
  \/ \E o \in SuperagentOutcomes : invitesReceivedEnd(o)
  \/ \E k \in FieldValues, e \in FieldValues, p \in FieldValues, cb \in GivenCbs :
       confirmPasswordReset(k, e, p, cb)
  \/ \E o \in SuperagentOutcomes : confirmPasswordResetEnd(o)

Spec == Init /\ [][Next]_vars


\* ---------------------------------------------------------- properties
\* the identifier / e-mail argument of a fetch-style call
Identifier == IF op = "signupStart" THEN args.id ELSE args.email
\* the value is the empty string or not a string at all
EmptyOrNonString(v) == v.t # "string" \/ v.s = ""
\* a payload field is missing or empty
MissingOrEmpty(v) == v \in {UndefV, NullV, Str("")}
\* the invocation carries no error
NoError(c) == c.err.kind \in {"null", "undefined"}
\* the response status is not in the 2xx range
Not2xx(status) == status < 200 \/ status > 299
\* the body's reason of a superagent outcome when the body carries one
ReasonOrEmpty(o) ==
  IF o.hasResponse /\ o.hasBody /\ o.reason \notin {Undefined, ""} THEN o.reason ELSE ""
MutationOps == {"signupConfirm", "custodialSignupConfirm", "confirmPasswordReset"}

\* C1: invitesReceived, however the transport reports an outcome that carries
\* a status and a response body: 404 invokes the callback with (null, []),
\* 200 with (null, body), any other status with the two arguments (body, []).
C1_ListOutcomes ==
  (op = "invitesReceived" /\ pc = "done" /\ outcome.hasResponse /\ outcome.hasBody
     /\ outcome.status # NoStatus)
  => /\ Len(calls) = 1
     /\ calls[1] =
          IF outcome.status = 404 THEN Invocation(2, NullArg, EmptyArray)
          ELSE IF outcome.status = 200
            THEN Invocation(2, NullArg, BodyObject(outcome.reason, outcome.error))
            ELSE Invocation(2, BodyObject(outcome.reason, outcome.error), EmptyArray)

\* C2: signupStart, signupResend and requestPasswordReset throw on an empty
\* string or a non-string identifier, issuing no request and never invoking
\* the callback; with a non-empty string they do not throw and issue exactly
\* one request.
C2_PreconditionThrows ==
  op \in FetchOps
  => IF EmptyOrNonString(Identifier)
       THEN pc = "thrown" /\ thrown # "" /\ requests = <<>> /\ calls = <<>>
       ELSE pc # "thrown" /\ thrown = "" /\ Len(requests) = 1

C2_Witness ==
  /\ op = "signupResend"
  /\ args.email = ArrV(1)
  /\ pc = "thrown"
  /\ requests = <<>>

\* C3: confirmPasswordReset with key, email or password missing or empty
\* invokes the callback exactly once with the bad-request status and issues no
\* request; a request is issued only when all three fields are non-empty.
C3_FailFastPayload ==
  op = "confirmPasswordReset"
  => /\ (MissingOrEmpty(args.key) \/ MissingOrEmpty(args.email)
           \/ MissingOrEmpty(args.password))
        => /\ requests = <<>>
           /\ Len(calls) = 1
           /\ calls[1].err.status = STATUS_BAD_REQUEST
           /\ calls[1].argc = 1
     /\ requests # <<>>
        => /\ ~MissingOrEmpty(args.key)
           /\ ~MissingOrEmpty(args.email)
           /\ ~MissingOrEmpty(args.password)

C3_Witness ==
  /\ op = "confirmPasswordReset"
  /\ args.key = Str("u")
  /\ args.email = Str("u")
  /\ args.password = UndefV
  /\ Len(calls) = 1
  /\ requests = <<>>

\* C4 as stated: custodialSignupConfirm with an empty birthday or password
\* issues no request and hands the callback the bad-request status.
C4_FailFastCustodial ==
  (op = "custodialSignupConfirm"
     /\ (MissingOrEmpty(args.birthday) \/ MissingOrEmpty(args.password)))
  => /\ requests = <<>>
     /\ Len(calls) = 1
     /\ calls[1].err.status = STATUS_BAD_REQUEST

\* C4 amended: custodialSignupConfirm does not check birthday and password;
\* whatever they are it issues exactly one request carrying them as given, and
\* the callback is invoked only once the transport has reported an outcome.
C4_NoLocalCheck ==
  op = "custodialSignupConfirm"
  => /\ Len(requests) = 1
     /\ requests[1].body.birthday = args.birthday
     /\ requests[1].body.password = args.password
     /\ (outcome.kind = "none" => calls = <<>>)

C4_Witness ==
  /\ op = "custodialSignupConfirm"
  /\ args.birthday = Str("")
  /\ args.password = UndefV
  /\ Len(requests) = 1
  /\ pc = "done"
  /\ outcome.kind = "res"
  /\ outcome.status = 200

\* C5: a call that passed its precondition check invokes the callback exactly
\* once on every path (never twice, and once when the call has run to its
\* end), a throwing callback included, and issues at most one request.
C5_ExactlyOnce ==
  pc # "thrown"
  => /\ Len(calls) <= 1
     /\ Len(requests) <= 1
     /\ (pc = "done" => Len(calls) = 1)

\* C6: for signupConfirm, custodialSignupConfirm and confirmPasswordReset the
\* callback gets no error exactly when a response with status 200 was
\* delivered (a 201 or 204 response gives a descriptor with that status); for
\* signupStart, signupResend and requestPasswordReset every 2xx response
\* invokes the callback with null as its only argument.
C6_SuccessPredicate ==
  /\ (op \in MutationOps /\ outcome.kind \in {"res", "err"})
     => /\ Len(calls) = 1
        /\ NoError(calls[1]) <=> (outcome.kind = "res" /\ outcome.status = 200)
        /\ (outcome.kind = "res" /\ outcome.status # 200)
           => /\ calls[1].err.kind = "descriptor"
              /\ calls[1].err.status = outcome.status
  /\ (op \in FetchOps /\ outcome.kind = "resolve" /\ ~Not2xx(outcome.status)
        /\ pc # "then")
     => /\ calls # <<>>
        /\ calls[1] = Invocation(1, NullArg, UndefinedArg)

C6_Witness ==
  /\ op = "signupConfirm"
  /\ outcome.kind = "res"
  /\ outcome.status = 204
  /\ Len(calls) = 1
  /\ calls[1].err.status = 204

C8_FailureObjectAll ==
  (op \in SuperagentOps /\ outcome.kind = "err")
  => /\ Len(calls) = 1
     /\ calls[1].err.kind = "failure"
     /\ calls[1].err.status = outcome.status
     /\ calls[1].err.message = ReasonOrEmpty(outcome)

\* C8 amended: signupConfirm and custodialSignupConfirm pass the failure
\* object with message set to the body's reason or the empty string;
\* confirmPasswordReset passes the failure object with message set to the
\* attached response's error property or the empty string; invitesReceived
\* does not pass the failure object: a 404 failure gives (null, []), any other
\* gives the single argument response body, or [] when there is none.
C8_FailurePerOperation ==
  (op \in SuperagentOps /\ outcome.kind = "err")
  => /\ Len(calls) = 1
     /\ op \in {"signupConfirm", "custodialSignupConfirm"}
        => /\ calls[1].err.kind = "failure"
           /\ calls[1].err.status = outcome.status
           /\ calls[1].err.message = ReasonOrEmpty(outcome)
     /\ op = "confirmPasswordReset"
        => /\ calls[1].err.kind = "failure"
           /\ calls[1].err.status = outcome.status
           /\ calls[1].err.message =
                IF outcome.hasResponse /\ outcome.resError = ErrorObject
                  THEN ErrorObject ELSE ""
     /\ op = "invitesReceived"
        => calls[1] =
             IF outcome.status = 404 THEN Invocation(2, NullArg, EmptyArray)
             ELSE IF outcome.hasResponse /\ outcome.hasBody
               THEN Invocation(1, BodyObject(outcome.reason, outcome.error), UndefinedArg)
               ELSE Invocation(1, EmptyArray, UndefinedArg)

C8_Witness ==
  /\ op = "confirmPasswordReset"
  /\ outcome.kind = "err"
  /\ outcome.hasBody
  /\ outcome.reason = "x"
  /\ outcome.resError = ErrorObject
  /\ Len(calls) = 1
  /\ calls[1].err.kind = "failure"
  /\ calls[1].err.message = ErrorObject

\* C9 as stated: for signupStart, signupResend and requestPasswordReset a
\* non-2xx response whose text can be read gives the callback a descriptor
\* with the response status and the body text as message.
C9_StatusAndTextAll ==
  (op \in FetchOps /\ outcome.kind = "resolve" /\ Not2xx(outcome.status)
     /\ outcome.textOk /\ pc # "then")
  => /\ calls # <<>>
     /\ calls[1].err.status = outcome.status
     /\ calls[1].err.message = outcome.text

\* C9 amended: for signupResend and requestPasswordReset a non-2xx response
\* whose text is read gives the callback {status, message: text}, and when
\* reading the text fails the callback gets that failure; for signupStart the
\* callback gets an Error with message "Invalid HTTP response <status>",
\* without a status field and without the body text.
C9_StatusAndTextPerOperation ==
  (op \in FetchOps /\ outcome.kind = "resolve" /\ Not2xx(outcome.status) /\ pc # "then")
  => /\ (op # "signupStart" /\ outcome.textOk)
        => /\ calls # <<>>
           /\ calls[1] = Invocation(1, [Blank EXCEPT !.kind = "descriptor",
                                                     !.status = outcome.status,
                                                     !.message = outcome.text],
                                    UndefinedArg)
     /\ (op # "signupStart" /\ ~outcome.textOk /\ pc = "done")
        => calls = <<Invocation(1, TextRejection, UndefinedArg)>>
     /\ op = "signupStart"
        => /\ calls # <<>>
           /\ calls[1].err.kind = "Error"
           /\ calls[1].err.status = NoStatus
           /\ calls[1].err.message = "Invalid HTTP response " \o ToString(outcome.status)

C9_Witness ==
  /\ op = "signupResend"
  /\ outcome.kind = "resolve"
  /\ outcome.status = 404
  /\ outcome.textOk
  /\ outcome.text = "no such user"
  /\ Len(calls) = 1
  /\ calls[1].err.message = "no such user"

\* C10 as stated: every request of signupStart, signupResend and
\* requestPasswordReset carries the session token, the trace id and the
\* language ("en" when omitted) in the three custom headers.
C10_ThreeHeadersAll ==
  (op \in FetchOps /\ requests # <<>>)
  => requests[1].headers =
       {Header("x-tidepool-session-token", Str(token)),
        Header("x-tidepool-trace-session", Str(trace)),
        Header("x-tidepool-language",
               IF args.lang = UndefV THEN Str("en") ELSE args.lang)}

\* C10 amended: every such request carries the trace id and the language
\* ("en" when omitted); only signupStart's request also carries the session
\* token, signupResend and requestPasswordReset send no session token header.
C10_HeadersPerOperation ==
  (op \in FetchOps /\ requests # <<>>)
  => requests[1].headers =
       {Header("x-tidepool-trace-session", Str(trace)),
        Header("x-tidepool-language",
               IF args.lang = UndefV THEN Str("en") ELSE args.lang)}
       \cup (IF op = "signupStart"
               THEN {Header("x-tidepool-session-token", Str(token))}
               ELSE {})

C10_Witness ==
  /\ op = "requestPasswordReset"
  /\ args.lang = Str("fr")
  /\ Len(requests) = 1
  /\ Header("x-tidepool-language", Str("fr")) \in requests[1].headers
  /\ Cardinality(requests[1].headers) = 2

====
